---- MODULE Spec2Model ----
(***************************************************************************)
(* A model of greasy's FAT reader: the geometry computed by Fat::new, the  *)
(* address translator, the directory pass of Fat::_tree with its entry     *)
(* decoders and add_lfn, and the chain loop of Entry::add_cluster_chain.   *)
(*                                                                         *)
(* Bytes are naturals 0..255, a Rust String is the sequence of its UTF-8   *)
(* bytes, and a slice mem[a..b] of a 32-byte window w is Slice(w, a, b).   *)
(* u32 values are kept below 2^31: inputs on which a u32 computation of    *)
(* the source would wrap are taken only in builds with overflow checks,    *)
(* where the computation panics.                                           *)
(***************************************************************************)
EXTENDS Integers, Sequences, FiniteSets, TLC

VARIABLES
    build,      \* "debug" (overflow checks, arithmetic panics) or "release" (wraps)
    boot,       \* the boot sector fields of the mapped image (Fat.mem, sector 0)
    dir,        \* the 32-byte windows of the image from the root directory on
    fat,        \* the file allocation table of the image: cluster -> raw entry
    pc,         \* position of the program
    vol,        \* the Fat struct built by Fat::new
    calls,      \* the address translator calls made so far, with their results
    i,          \* _tree: index of the current window (byte offset / 32 past the root)
    files,      \* _tree: Vec<Entry>
    lfns,       \* _tree: HashMap<u8, Vec<LFNEntry>>
    k,          \* _tree: position of the second loop in files
    decoded,    \* _tree: indices of the windows decoded so far
    emitted,    \* _tree: the entries printed so far, in order
    entry,      \* add_cluster_chain: the entry (self)
    n,          \* add_cluster_chain: the cursor
    clusters    \* add_cluster_chain: the Vec<Cluster> under construction

vars == <<build, boot, dir, fat, pc, vol, calls, i, files, lfns, k, decoded,
          emitted, entry, n, clusters>>

----------------------------------------------------------------------------
(* Bytes and strings *)

Rep(b, cnt) == [j \in 1..cnt |-> b]

\* mem[a..b] of a window (Rust ranges are 0-based and half-open)
Slice(w, a, b) == SubSeq(w, a + 1, b)

\* mem[j]
At(w, j) == w[j + 1]

\* LittleEndian::read_u16(&mem[a..a+2])
ReadU16(w, a) == At(w, a) + 256 * At(w, a + 1)

HasNul(s) == \E j \in 1..Len(s) : s[j] = 0

IsCont(b) == b >= 128 /\ b <= 191

Get(s, j) == IF j <= Len(s) THEN s[j] ELSE 0

\* The number of bytes of the UTF-8 scalar value starting at s[j] (1..4), or
\* minus the length of the invalid sequence starting there (core::str
\* validation: a bad lead byte, a bad second byte, or a truncated tail).
Utf8Step(s, j) ==
    LET b  == s[j]
        b1 == Get(s, j + 1)
        b2 == Get(s, j + 2)
        b3 == Get(s, j + 3)
        second3 == \/ b = 224 /\ b1 >= 160 /\ b1 <= 191
                   \/ b >= 225 /\ b <= 236 /\ IsCont(b1)
                   \/ b = 237 /\ b1 >= 128 /\ b1 <= 159
                   \/ b >= 238 /\ b <= 239 /\ IsCont(b1)
        second4 == \/ b = 240 /\ b1 >= 144 /\ b1 <= 191
                   \/ b >= 241 /\ b <= 243 /\ IsCont(b1)
                   \/ b = 244 /\ b1 >= 128 /\ b1 <= 143
    IN  IF b < 128 THEN 1
        ELSE IF b >= 194 /\ b <= 223 THEN (IF IsCont(b1) THEN 2 ELSE -1)
        ELSE IF b >= 224 /\ b <= 239 THEN
            (IF ~second3 THEN -1 ELSE IF ~IsCont(b2) THEN -2 ELSE 3)
        ELSE IF b >= 240 /\ b <= 244 THEN
            (IF ~second4 THEN -1 ELSE IF ~IsCont(b2) THEN -2
             ELSE IF ~IsCont(b3) THEN -3 ELSE 4)
        ELSE -1

RECURSIVE Utf8ValidFrom(_, _)
Utf8ValidFrom(s, j) ==
    IF j > Len(s) THEN TRUE
    ELSE LET st == Utf8Step(s, j)
         IN  st > 0 /\ Utf8ValidFrom(s, j + st)

\* String::from_utf8 succeeds (what CString::into_string requires)
Utf8Valid(s) == Utf8ValidFrom(s, 1)

\* U+FFFD REPLACEMENT CHARACTER in UTF-8
Replacement == <<239, 191, 189>>

RECURSIVE Utf8LossyFrom(_, _)
Utf8LossyFrom(s, j) ==
    IF j > Len(s) THEN <<>>
    ELSE LET st == Utf8Step(s, j)
         IN  IF st > 0
             THEN SubSeq(s, j, j + st - 1) \o Utf8LossyFrom(s, j + st)
             ELSE Replacement \o Utf8LossyFrom(s, j - st)

\* String::from_utf8_lossy(bytes).to_string()
Utf8Lossy(s) == Utf8LossyFrom(s, 1)

RECURSIVE TrimStartRepl(_)
TrimStartRepl(s) ==
    IF Len(s) >= 3 /\ SubSeq(s, 1, 3) = Replacement
    THEN TrimStartRepl(SubSeq(s, 4, Len(s)))
    ELSE s

RECURSIVE TrimEndRepl(_)
TrimEndRepl(s) ==
    IF Len(s) >= 3 /\ SubSeq(s, Len(s) - 2, Len(s)) = Replacement
    THEN TrimEndRepl(SubSeq(s, 1, Len(s) - 3))
    ELSE s

\* s.trim_matches(|c| c == REPLACEMENT_CHARACTER)
TrimReplacement(s) == TrimEndRepl(TrimStartRepl(s))

\* char::is_whitespace on the one-byte characters: TAB, LF, VT, FF, CR, SPACE
IsSpace(b) == (b >= 9 /\ b <= 13) \/ b = 32

RECURSIVE TrimStart(_)
TrimStart(s) ==
    IF Len(s) > 0 /\ IsSpace(s[1]) THEN TrimStart(Tail(s)) ELSE s

RECURSIVE TrimEnd(_)
TrimEnd(s) ==
    IF Len(s) > 0 /\ IsSpace(s[Len(s)]) THEN TrimEnd(SubSeq(s, 1, Len(s) - 1)) ELSE s

\* str::trim
Trim(s) == TrimEnd(TrimStart(s))

\* Ord for String: bytewise lexicographic
RECURSIVE StrLess(_, _)
StrLess(a, b) ==
    IF Len(b) = 0 THEN FALSE
    ELSE IF Len(a) = 0 THEN TRUE
    ELSE IF a[1] # b[1] THEN a[1] < b[1]
    ELSE StrLess(Tail(a), Tail(b))

----------------------------------------------------------------------------
(* Fat::new *)

FAT12 == <<70, 65, 84, 49, 50>>
FAT16 == <<70, 65, 84, 49, 54>>
FAT32 == <<70, 65, 84, 51, 50>>

\* Size of a directory entry in bytes
DIR_ENTRY_SIZE == 32

\* CString::new(bytes).expect(..).into_string().expect(..) panics on a NUL
\* byte and on bytes that are not UTF-8
CStringPanics(bytes) == HasNul(bytes) \/ ~Utf8Valid(bytes)

\* the match on fat_type.trim()
EntrySizeOf(fat_type) ==
    LET t == Trim(fat_type)
    IN  IF t = FAT12 THEN 12
        ELSE IF t = FAT16 THEN 16
        ELSE IF t = FAT32 THEN 32
        ELSE 0

\* (read_u16(&mem[17..19]) * DIR_ENTRY_SIZE) / bytes_per_sector, in u16:
\* the product wraps at 2^16 in a build without overflow checks
RootDirSectors(bs) ==
    IF bs.bytes_per_sector = 0 THEN 0
    ELSE ((bs.total_root_entries * DIR_ENTRY_SIZE) % 65536) \div bs.bytes_per_sector

\* a u32 subtraction of Fat::new goes below 0 on this boot sector: construction
\* panics under overflow checks and wraps without them
FatNewWraps(bs) ==
    LET fat_type == IF bs.fat_sz16 = 0 THEN bs.label32 ELSE bs.label16
        is32 == Trim(fat_type) = FAT32
        total_sectors == IF bs.total16 = 0 THEN bs.total32 ELSE bs.total16
        fat_table_sectors == IF bs.fat_sz16 = 0 THEN bs.fat_sz32 ELSE bs.fat_sz16
        start_data_area == bs.sectors_reserved_area + (bs.fat_table_count * fat_table_sectors)
        start_cluster_area ==
            IF is32 THEN start_data_area ELSE start_data_area + RootDirSectors(bs)
    IN  (is32 /\ bs.first_root_cluster < 2) \/ total_sectors < start_cluster_area

\* Fat::new(mem): the struct, or panic = TRUE when construction panics
FatNew(bs, bld) ==
    LET fat_table_sectors == IF bs.fat_sz16 = 0 THEN bs.fat_sz32 ELSE bs.fat_sz16
        fat_type == IF bs.fat_sz16 = 0 THEN bs.label32 ELSE bs.label16
        is32 == Trim(fat_type) = FAT32
        fat_table_entry_size == EntrySizeOf(fat_type)
        total_sectors == IF bs.total16 = 0 THEN bs.total32 ELSE bs.total16
        sectors_fat_area == bs.fat_table_count * fat_table_sectors
        start_fat_area == bs.sectors_reserved_area
        start_data_area == start_fat_area + sectors_fat_area
        mul16 == bs.total_root_entries * DIR_ENTRY_SIZE
        start_cluster_area ==
            IF is32 THEN start_data_area ELSE start_data_area + RootDirSectors(bs)
        start_root_dir ==
            IF is32
            THEN ((bs.first_root_cluster - 2) * bs.sectors_per_cluster) + start_cluster_area
            ELSE start_data_area
        total_clusters ==
            IF bs.sectors_per_cluster = 0 THEN 0
            ELSE ((total_sectors - start_cluster_area) \div bs.sectors_per_cluster) + 1
        overflow == (~is32 /\ mul16 > 65535) \/ FatNewWraps(bs)
        divzero ==
            \/ ~is32 /\ bs.bytes_per_sector = 0
            \/ bs.sectors_per_cluster = 0
    IN  [ panic |-> \/ CStringPanics(bs.oem)
                    \/ CStringPanics(fat_type)
                    \/ divzero
                    \/ (bld = "debug" /\ overflow),
          oem |-> bs.oem,
          fat_table_sectors |-> fat_table_sectors,
          fat_type |-> fat_type,
          fat_table_entry_size |-> fat_table_entry_size,
          fat_table_count |-> bs.fat_table_count,
          bytes_per_sector |-> bs.bytes_per_sector,
          sectors_per_cluster |-> bs.sectors_per_cluster,
          total_sectors |-> total_sectors,
          sectors_reserved_area |-> bs.sectors_reserved_area,
          start_reserved_area |-> 0,
          sectors_fat_area |-> sectors_fat_area,
          start_fat_area |-> start_fat_area,
          start_data_area |-> start_data_area,
          start_root_dir |-> start_root_dir,
          start_cluster_area |-> start_cluster_area,
          total_clusters |-> total_clusters ]

----------------------------------------------------------------------------
(* Address translator.  A result is [panic, val]. *)

Panicked == [panic |-> TRUE, val |-> 0]

Ret(x) == [panic |-> FALSE, val |-> x]

\* Fat::cluster_to_sector
cluster_to_sector(v, cluster) ==
    IF cluster < 2 THEN Panicked
    ELSE Ret(((cluster - 2) * v.sectors_per_cluster) + v.start_data_area)

\* Fat::sector_to_cluster; bld decides what a u32 underflow does
sector_to_cluster(v, sector, bld) ==
    IF v.sectors_per_cluster = 0 THEN Panicked
    ELSE IF sector < v.start_data_area /\ bld = "debug" THEN Panicked
    ELSE Ret((sector - v.start_data_area) \div v.sectors_per_cluster)

\* Fat::offset
offset(v, sector) == sector * v.bytes_per_sector

\* Fat::fat_table_offset
fat_table_offset(v, cluster) ==
    IF cluster < 2 THEN Panicked
    ELSE Ret((v.start_fat_area * v.bytes_per_sector) + (cluster * v.fat_table_entry_size))

----------------------------------------------------------------------------
(* Directory entry codec *)

None == [some |-> FALSE, str |-> <<>>]

Some(s) == [some |-> TRUE, str |-> s]

RECURSIVE ChecksumFold(_, _, _)
ChecksumFold(s, j, sum) ==
    IF j > Len(s) THEN sum
    ELSE ChecksumFold(s, j + 1, ((((sum % 2) * 128) + (sum \div 2)) + s[j]) % 256)

\* Entry::checksum(s), over s.as_bytes()
checksum(s) == ChecksumFold(s, 1, 0)

\* LittleEndian::read_u32(&mem[a..a+4])
ReadU32(w, a) == ReadU16(w, a) + 65536 * ReadU16(w, a + 2)

\* the fields of Entry that both decoders fill the same way, given the name
EntryFields(mem, name) ==
    [ name |-> name,
      long_name |-> None,
      attributes |-> At(mem, 11),
      creat_tos |-> At(mem, 13),
      creat_hms |-> ReadU16(mem, 14),
      creat_day |-> ReadU16(mem, 16),
      access_day |-> ReadU16(mem, 18),
      written_hms |-> ReadU16(mem, 22),
      written_day |-> ReadU16(mem, 24),
      start |-> (ReadU16(mem, 20) * 65536) + ReadU16(mem, 26),
      clusters |-> None,
      size |-> ReadU32(mem, 28),
      checksum |-> checksum(name),
      deleted |-> (At(mem, 0) = 229) ]

\* Entry::new of fat.rs panics when the 11 name bytes are no C string
EntryNewPanics(mem) == CStringPanics(Slice(mem, 0, 11))

\* Entry::new of fat.rs (the one Fat::_tree calls), when it does not panic
EntryNew(mem) == EntryFields(mem, Slice(mem, 0, 11))

\* Entry::new of fat_entry.rs: the name is decoded lossily, it never panics
EntryNewLossy(mem) == EntryFields(mem, Utf8Lossy(Slice(mem, 0, 11)))

is_disk_volume_entry(e) == (e.attributes \div 8) % 2 = 1

is_subdir_entry(e) == (e.attributes \div 16) % 2 = 1

is_deleted(e) == e.deleted

is_this_entry(e) == Trim(e.name) = <<46>>

is_prev_entry(e) == Trim(e.name) = <<46, 46>>

\* LFNEntry::new
LFNEntryNew(mem) ==
    LET s1 == Utf8Lossy(Slice(mem, 1, 11))
        s2 == Utf8Lossy(Slice(mem, 14, 26))
        s3 == Utf8Lossy(Slice(mem, 28, 32))
    IN  [ sequence_number |-> At(mem, 0),
          filename |-> TrimReplacement((s1 \o s2) \o s3),
          checksum |-> At(mem, 13) ]

\* LFNEntry::is_lfn_entry
is_lfn_entry(attributes) == attributes = 15

\* derive(PartialOrd, Ord) on LFNEntry: the fields in declaration order
LFNLess(a, b) ==
    IF a.sequence_number # b.sequence_number THEN a.sequence_number < b.sequence_number
    ELSE IF a.filename # b.filename THEN StrLess(a.filename, b.filename)
    ELSE a.checksum < b.checksum

RECURSIVE InsertSorted(_, _)
InsertSorted(x, sorted) ==
    IF Len(sorted) = 0 THEN <<x>>
    ELSE IF LFNLess(x, sorted[Len(sorted)])
         THEN Append(InsertSorted(x, SubSeq(sorted, 1, Len(sorted) - 1)), sorted[Len(sorted)])
         ELSE Append(sorted, x)

\* the bucket left in the order the shards were pushed
Unsorted(v) == v

RECURSIVE SortLFN(_)
\* lfn_vec.sort(): a stable sort by the derived order
SortLFN(v) ==
    IF Len(v) = 0 THEN <<>>
    ELSE InsertSorted(v[Len(v)], SortLFN(SubSeq(v, 1, Len(v) - 1)))

RECURSIVE ConcatNames(_)
\* for e in lfn_vec { s.push_str(&e.filename) }
ConcatNames(v) ==
    IF Len(v) = 0 THEN <<>> ELSE v[1].filename \o ConcatNames(Tail(v))

\* Entry::add_lfn: the entry and the map after the call
add_lfn(e, map) ==
    IF e.checksum \in DOMAIN map
    THEN LET lfn_vec == SortLFN(map[e.checksum])
         IN  [ e |-> [e EXCEPT !.long_name = Some(ConcatNames(lfn_vec))],
               lfns |-> [map EXCEPT ![e.checksum] = lfn_vec] ]
    ELSE [e |-> e, lfns |-> map]

----------------------------------------------------------------------------
(* The images the model is run on *)

\* longest directory region, in 32-byte windows
MaxDir == 4

\* largest cluster number of the file allocation table
MaxCluster == 4

\* address translator calls per run
MaxCalls == 2

\* loop iterations of add_cluster_chain that are followed; a chain that ends
\* has at most MaxCluster - 1 clusters
MaxChain == 5

Builds == {"debug", "release"}

PadName(s) == s \o Rep(32, 11 - Len(s))

\* a short directory entry: name, attributes, first cluster; times and size 0
MkShort(name, attr, cluster) ==
    name \o <<attr, 0, 0>> \o Rep(0, 6)
         \o <<(cluster \div 65536) % 256, cluster \div 16777216>> \o Rep(0, 4)
         \o <<cluster % 256, (cluster \div 256) % 256>> \o Rep(0, 4)

\* an LFN shard: sequence number, the fragment's bytes padded with 0xFF, checksum
MkLFN(seq, fragment, sum) ==
    LET f == fragment \o Rep(255, 26 - Len(fragment))
    IN  <<seq>> \o SubSeq(f, 1, 10) \o <<15, 0, sum>> \o SubSeq(f, 11, 22)
              \o <<0, 0>> \o SubSeq(f, 23, 26)

ZeroEntry == Rep(0, 32)

NameA == PadName(<<65>>)

NameLong == <<76, 79, 78, 71, 70, 73, 126, 49, 84, 88, 84>>

NameDeleted == <<229, 69, 76, 69, 84, 69, 68, 32, 32, 32, 32>>

FragHead == <<76, 111, 110, 103, 70, 105, 108, 101, 110, 97, 109, 101, 46>>

FragTail == <<116, 120, 116>>

ShortA == MkShort(NameA, 32, 5)

ShortLong == MkShort(NameLong, 32, 6)

\* "LONGBG~2TXT": another short name, with the checksum of NameLong
NameTwin == <<76, 79, 78, 71, 66, 71, 126, 50, 84, 88, 84>>

ShortTwin == MkShort(NameTwin, 32, 9)

ShortDeleted == MkShort(NameDeleted, 32, 7)

DotEntry == MkShort(PadName(<<46>>), 16, 3)

DotDotEntry == MkShort(PadName(<<46, 46>>), 16, 0)

SubDir == MkShort(PadName(<<83, 85, 66>>), 16, 3)

ShortC == MkShort(PadName(<<67>>), 32, 8)

LFNHead == MkLFN(65, FragHead, checksum(NameLong))

LFNTail == MkLFN(2, FragTail, checksum(NameLong))

\* an LFN shard left behind the end of the directory: byte 0 is 0, the rest stays
StaleLFN == <<0>> \o Tail(LFNTail)

Windows == {ZeroEntry, StaleLFN, ShortA, ShortLong, ShortTwin, ShortDeleted,
            DotEntry, SubDir, LFNHead, LFNTail}

Dirs == UNION {[1..m -> Windows] : m \in 0..MaxDir}

\* the directory region stored in the clusters of SubDir
SubDirRegion == <<DotEntry, DotDotEntry, ShortC, ZeroEntry>>

Label(s) == s \o Rep(32, 8 - Len(s))

Labels == {Label(FAT12), Label(FAT16), Label(FAT32), Label(<<78, 84, 70, 83>>),
           FAT16 \o Rep(0, 3)}

Oem == <<109, 107, 102, 115, 46, 102, 97, 116>>

MkBoot(label, is32, spc, root_entries) ==
    [ oem |-> Oem,
      bytes_per_sector |-> 512,
      sectors_per_cluster |-> spc,
      sectors_reserved_area |-> IF is32 THEN 32 ELSE 1,
      fat_table_count |-> 2,
      total_root_entries |-> root_entries,
      total16 |-> IF is32 THEN 0 ELSE 20000,
      fat_sz16 |-> IF is32 THEN 0 ELSE 32,
      total32 |-> 1048576,
      fat_sz32 |-> 500,
      first_root_cluster |-> 2,
      label16 |-> IF is32 THEN Rep(32, 8) ELSE label,
      label32 |-> IF is32 THEN label ELSE Rep(32, 8) ]

Boot16 == MkBoot(Label(FAT16), FALSE, 4, 512)

Boot32 == MkBoot(Label(FAT32), TRUE, 8, 0)

Boots == {MkBoot(l, b, spc, r) : l \in Labels, b \in BOOLEAN, spc \in {1, 4},
                                 r \in {0, 17, 512, 2048}}

\* raw FAT16 entries: free, bad, end of chain, or the next cluster
FatValues == {0, 65527, 65535} \cup (2..MaxCluster)

FatTables == [2..MaxCluster -> FatValues]

NoFat == [c \in 2..MaxCluster |-> 0]

NoVol == [panic |-> FALSE]

NoEntry == [start |-> 0]

----------------------------------------------------------------------------
(* The program *)

Idle ==
    /\ pc = "start"
    /\ vol = NoVol
    /\ calls = <<>>
    /\ i = 0
    /\ files = <<>>
    /\ lfns = <<>>
    /\ k = 0
    /\ decoded = {}
    /\ emitted = <<>>
    /\ entry = NoEntry
    /\ n = 0
    /\ clusters = <<>>

\* main: the image is mapped; the directory region holds any windows
Init ==
    /\ build = "release"
    /\ boot = Boot16
    /\ dir \in Dirs
    /\ fat = NoFat
    /\ Idle

\* let fat = fat::Fat::new(mem)
New ==
    /\ pc = "start"
    /\ vol' = FatNew(boot, build)
    /\ pc' = IF vol'.panic THEN "panic" ELSE "ready"
    /\ UNCHANGED <<build, boot, dir, fat, calls, i, files, lfns, k, decoded,
                   emitted, entry, n, clusters>>

\* byte offset of the root directory: dir[1] is mem[RootOffset .. RootOffset + 32]
RootOffset == offset(vol, vol.start_root_dir)

\* the index in dir of the window at byte offset b
WindowIndex(b) == ((b - RootOffset) \div DIR_ENTRY_SIZE) + 1

\* the window lies in the image
InImage(b) == WindowIndex(b) <= Len(dir)

\* &self.mem[b..b + 32]
Window(b) == dir[WindowIndex(b)]

\* Fat::tree, and _tree up to its first loop
Tree ==
    /\ pc = "ready"
    /\ pc' = "scan"
    /\ i' = offset(vol, vol.start_root_dir)
    /\ files' = <<>>
    /\ lfns' = <<>>
    /\ UNCHANGED <<build, boot, dir, fat, vol, calls, k, decoded, emitted,
                   entry, n, clusters>>

\* the loop guard reading the attribute byte of the window instead of byte 0
ScanGuardAttr(b) == At(Window(b), 11) # 0

\* while self.mem[i] != 0
ScanGuard(b) == At(Window(b), 0) # 0

\* one iteration of the first loop on an LFN window
ScanLFN ==
    /\ pc = "scan"
    /\ InImage(i)
    /\ ScanGuard(i)
    /\ is_lfn_entry(At(Window(i), 11))
    /\ LET lfn_entry == LFNEntryNew(Window(i))
           old == IF lfn_entry.checksum \in DOMAIN lfns
                  THEN lfns[lfn_entry.checksum] ELSE <<>>
       IN  lfns' = (lfn_entry.checksum :> Append(old, lfn_entry)) @@ lfns
    /\ decoded' = decoded \cup {WindowIndex(i)}
    /\ i' = i + DIR_ENTRY_SIZE
    /\ UNCHANGED <<build, boot, dir, fat, pc, vol, calls, files, k, emitted,
                   entry, n, clusters>>

\* one iteration of the first loop on a short entry
ScanEntry ==
    /\ pc = "scan"
    /\ InImage(i)
    /\ ScanGuard(i)
    /\ ~is_lfn_entry(At(Window(i), 11))
    /\ ~EntryNewPanics(Window(i))
    /\ files' = Append(files, EntryNew(Window(i)))
    /\ decoded' = decoded \cup {WindowIndex(i)}
    /\ i' = i + DIR_ENTRY_SIZE
    /\ UNCHANGED <<build, boot, dir, fat, pc, vol, calls, lfns, k, emitted,
                   entry, n, clusters>>

\* self.mem[i] is read past the end of the image: index out of bounds
ScanPastImage ==
    /\ pc = "scan"
    /\ ~InImage(i)
    /\ pc' = "panic"
    /\ UNCHANGED <<build, boot, dir, fat, vol, calls, i, files, lfns, k, decoded,
                   emitted, entry, n, clusters>>

\* Entry::new panics in the first loop
ScanPanic ==
    /\ pc = "scan"
    /\ InImage(i)
    /\ ScanGuard(i)
    /\ ~is_lfn_entry(At(Window(i), 11))
    /\ EntryNewPanics(Window(i))
    /\ pc' = "panic"
    /\ UNCHANGED <<build, boot, dir, fat, vol, calls, i, files, lfns, k, decoded,
                   emitted, entry, n, clusters>>

\* the first loop ends at a window whose byte 0 is 0
ScanEnd ==
    /\ pc = "scan"
    /\ InImage(i)
    /\ ~ScanGuard(i)
    /\ pc' = IF Len(files) = 0 THEN "done" ELSE "emit"
    /\ k' = 1
    /\ UNCHANGED <<build, boot, dir, fat, vol, calls, i, files, lfns, decoded,
                   emitted, entry, n, clusters>>

\* one iteration of: for e in &mut files { e.add_lfn(&mut lfns); println!(..) }
Emit ==
    /\ pc = "emit"
    /\ LET r == add_lfn(files[k], lfns)
       IN  /\ files' = [files EXCEPT ![k] = r.e]
           /\ lfns' = r.lfns
           /\ emitted' = Append(emitted, r.e)
    /\ k' = k + 1
    /\ pc' = IF k = Len(files) THEN "done" ELSE "emit"
    /\ UNCHANGED <<build, boot, dir, fat, vol, calls, i, decoded, entry, n,
                   clusters>>

Next == New \/ Tree \/ ScanLFN \/ ScanEntry \/ ScanPastImage \/ ScanPanic \/ ScanEnd \/ Emit

Spec == Init /\ [][Next]_vars

----------------------------------------------------------------------------
(* The address translator, called on a constructed volume *)

InitGeom ==
    /\ build \in Builds
    /\ boot \in Boots
    /\ build = "release" => ~FatNewWraps(boot)
    /\ dir = <<>>
    /\ fat = NoFat
    /\ Idle

Called(fn, arg, r) ==
    /\ calls' = Append(calls, [fn |-> fn, arg |-> arg, ret |-> r])
    /\ pc' = IF r.panic THEN "panic" ELSE "ready"
    /\ UNCHANGED <<build, boot, dir, fat, vol, i, files, lfns, k, decoded,
                   emitted, entry, n, clusters>>

ClusterToSector ==
    /\ pc = "ready"
    /\ Len(calls) < MaxCalls
    /\ \E c \in 1..MaxCluster : Called("cluster_to_sector", c, cluster_to_sector(vol, c))

\* the sectors sector_to_cluster is called on: the result of the call before
\* it, the first sector of the data and of the cluster area, and one before
SectorArgs ==
    {vol.start_data_area - 1, vol.start_data_area, vol.start_cluster_area}
        \cup {calls[j].ret.val : j \in {Len(calls)} \ {0}}

SectorToCluster ==
    /\ pc = "ready"
    /\ Len(calls) < MaxCalls
    /\ \E s \in SectorArgs :
          /\ build = "debug" \/ s >= vol.start_data_area
          /\ Called("sector_to_cluster", s, sector_to_cluster(vol, s, build))

Offset ==
    /\ pc = "ready"
    /\ Len(calls) < MaxCalls
    /\ \E s \in {vol.start_root_dir, vol.start_cluster_area} :
          Called("offset", s, Ret(offset(vol, s)))

FatTableOffset ==
    /\ pc = "ready"
    /\ Len(calls) < MaxCalls
    /\ \E c \in 1..MaxCluster : Called("fat_table_offset", c, fat_table_offset(vol, c))

NextGeom == New \/ ClusterToSector \/ SectorToCluster \/ Offset \/ FatTableOffset

SpecGeom == InitGeom /\ [][NextGeom]_vars

----------------------------------------------------------------------------
(* Entry::add_cluster_chain *)

InitChain ==
    /\ build = "release"
    /\ boot = Boot16
    /\ dir = <<>>
    /\ fat \in FatTables
    /\ Idle

\* x as i32, for a u32 x
AsI32(x) == IF x > 2147483647 THEN ((x - 2147483647) - 2147483647) - 2 ELSE x

\* while n != -1 && n != 0 && n != -9
ChainGuard(x) == x # -1 /\ x # 0 /\ x # -9

\* add_cluster_chain is entered on an entry decoded from the image
AddClusterChain ==
    /\ pc = "ready"
    /\ \E start \in 0..MaxCluster :
          /\ entry' = EntryNew(MkShort(NameA, 32, start))
          /\ n' = AsI32(start)
    /\ clusters' = <<>>
    /\ pc' = "chain"
    /\ UNCHANGED <<build, boot, dir, fat, vol, calls, i, files, lfns, k, decoded,
                   emitted>>

\* one iteration of the loop, which pushes n, computes offset from self.start
\* and leaves n as it is; after MaxChain iterations the loop is not
\* followed further (pc = "diverged")
ChainStep ==
    /\ pc = "chain"
    /\ ChainGuard(n)
    /\ clusters' = Append(clusters, n)
    /\ pc' = IF fat_table_offset(vol, entry.start).panic THEN "panic"
             ELSE IF Len(clusters') >= MaxChain THEN "diverged"
             ELSE "chain"
    /\ UNCHANGED <<build, boot, dir, fat, vol, calls, i, files, lfns, k, decoded,
                   emitted, entry, n>>

\* the loop exits: self.clusters = Some(clusters)
ChainEnd ==
    /\ pc = "chain"
    /\ ~ChainGuard(n)
    /\ entry' = [entry EXCEPT !.clusters = Some(clusters)]
    /\ pc' = "done"
    /\ UNCHANGED <<build, boot, dir, fat, vol, calls, i, files, lfns, k, decoded,
                   emitted, n, clusters>>

NextChain == New \/ AddClusterChain \/ ChainStep \/ ChainEnd

SpecChain == InitChain /\ [][NextChain]_vars

----------------------------------------------------------------------------
(* Cluster chains *)

IsCluster(c) == c \in 2..MaxCluster

RECURSIVE ReachesEnd(_, _, _)
\* the links from c reach a free, bad or end-of-chain entry within fuel steps
ReachesEnd(table, c, fuel) ==
    IF ~IsCluster(c) THEN c \in {0, 65527, 65535}
    ELSE fuel > 0 /\ ReachesEnd(table, table[c], fuel - 1)

RECURSIVE FollowsLinks(_, _, _)
\* list is a prefix of cur, table[cur], table[table[cur]], ...
FollowsLinks(list, table, cur) ==
    IF Len(list) = 0 THEN TRUE
    ELSE /\ IsCluster(cur)
         /\ list[1] = cur
         /\ FollowsLinks(Tail(list), table, table[cur])

NoRepeat(list) == \A a, b \in 1..Len(list) : list[a] = list[b] => a = b

Links234 == (2 :> 3) @@ (3 :> 4) @@ (4 :> 65535)

\* C1: whenever the links from start >= 2 reach an end-of-chain, bad or free
\* entry, the loop of add_cluster_chain exits: it is never still running after
\* MaxChain iterations, more than the table has clusters.
C1_ChainLoopExits ==
    (entry.start >= 2 /\ ReachesEnd(fat, entry.start, MaxCluster))
        => pc # "diverged"

\* C2: the list built by add_cluster_chain is always a prefix of the link
\* sequence start, next(start), ... without a repeated cluster, and on the
\* table 2 -> 3 -> 4 -> 0xFFFF with start 2 the result is [2, 3, 4].
C2_ChainInLinkOrder ==
    (pc \in {"chain", "done", "diverged"} /\ entry.start >= 2)
        => /\ FollowsLinks(clusters, fat, entry.start)
           /\ NoRepeat(clusters)
           /\ (pc = "done" /\ fat = Links234 /\ entry.start = 2)
                 => entry.clusters = Some(<<2, 3, 4>>)

----------------------------------------------------------------------------
(* Address translation *)

\* C3: sector_to_cluster(cluster_to_sector(c)) = c for every cluster c >= 2.
C3_RoundTrip ==
    \A j \in 2..Len(calls) :
        LET first == calls[j - 1]
            second == calls[j]
        IN  ( /\ first.fn = "cluster_to_sector"
              /\ first.arg >= 2
              /\ second.fn = "sector_to_cluster"
              /\ second.arg = first.ret.val )
            => (~second.ret.panic /\ second.ret.val = first.arg)

\* C9: cluster_to_sector(c) = (c - 2) * sectors_per_cluster + start_cluster_area
\* for every cluster c >= 2, on FAT12/16 and on FAT32 volumes.
C9_ClusterToSector ==
    \A j \in 1..Len(calls) :
        (calls[j].fn = "cluster_to_sector" /\ calls[j].arg >= 2)
            => /\ ~calls[j].ret.panic
               /\ calls[j].ret.val =
                    ((calls[j].arg - 2) * vol.sectors_per_cluster) + vol.start_cluster_area

\* C10: on a FAT16 or FAT32 volume, fat_table_offset(c) =
\* start_fat_area * bytes_per_sector + c * (fat_table_entry_bits / 8) for c >= 2.
C10_FatTableOffset ==
    \A j \in 1..Len(calls) :
        ( /\ calls[j].fn = "fat_table_offset"
          /\ calls[j].arg >= 2
          /\ Trim(vol.fat_type) \in {FAT16, FAT32} )
            => /\ ~calls[j].ret.panic
               /\ calls[j].ret.val =
                    (vol.start_fat_area * vol.bytes_per_sector)
                        + (calls[j].arg * (vol.fat_table_entry_size \div 8))

----------------------------------------------------------------------------
(* The directory pass *)

\* index of the first window of d whose byte 0 is 0, Len(d) + 1 if there is none
FirstZero(d) ==
    IF \E j \in 1..Len(d) : At(d[j], 0) = 0
    THEN CHOOSE j \in 1..Len(d) :
            At(d[j], 0) = 0 /\ \A q \in 1..(j - 1) : At(d[q], 0) # 0
    ELSE Len(d) + 1

IsShortWindow(w) == At(w, 11) # 15

IsLFNWindow(w) == At(w, 11) = 15

\* the short-entry windows of d before its end-of-directory window, in order
ShortWindows(d) == SelectSeq(SubSeq(d, 1, FirstZero(d) - 1), IsShortWindow)

\* the shards of d before its end-of-directory window, in order
ShardWindows(d) == SelectSeq(SubSeq(d, 1, FirstZero(d) - 1), IsLFNWindow)

NameOf(w) == Slice(w, 0, 11)

Names(list) == [m \in 1..Len(list) |-> list[m].name]

WindowNames(ws) == [m \in 1..Len(ws) |-> NameOf(ws[m])]

IsPrefix(a, b) == Len(a) <= Len(b) /\ a = SubSeq(b, 1, Len(a))

HaltScenario == <<ShortA, ShortLong, ZeroEntry, SubDir>>

\* C4: no window at or after the first window whose byte 0 is 0 is decoded
\* or emitted: the entries emitted are those of the short windows before it,
\* in order, and [A][B][zero][C] emits A and B only.
C4_HaltsAtZero ==
    /\ \A j \in decoded : j < FirstZero(dir)
    /\ IsPrefix(Names(emitted), WindowNames(ShortWindows(dir)))
    /\ pc = "done" => Names(emitted) = WindowNames(ShortWindows(dir))
    /\ (pc = "done" /\ dir = HaltScenario) => Names(emitted) = <<NameA, NameLong>>

C4_Witness ==
    /\ pc = "done"
    /\ dir = HaltScenario
    /\ decoded = {1, 2}
    /\ Len(emitted) = 2

\* C5: no emitted entry has the trimmed short name "." or "..".
C5_NoDotEmitted ==
    \A m \in 1..Len(emitted) :
        Trim(emitted[m].name) # <<46>> /\ Trim(emitted[m].name) # <<46, 46>>

\* the pass panicked in its first loop, at the window at i
PanickedAtWindow == pc = "panic" /\ ~vol.panic /\ InImage(i)

\* C6: a short entry whose byte 0 is 0xE5 is decoded without failure and
\* emitted with deleted = true, and the pass goes on to the entries after it.
C6_DeletedEmitted ==
    /\ PanickedAtWindow => At(Window(i), 0) # 229
    /\ pc = "done" =>
          \A j \in 1..(FirstZero(dir) - 1) :
              (IsShortWindow(dir[j]) /\ At(dir[j], 0) = 229)
                  => \E m \in 1..Len(emitted) :
                        emitted[m].name = NameOf(dir[j]) /\ emitted[m].deleted

\* the directory region in the cluster chain that starts at cluster c
ClusterRegion(c) == IF c = 3 THEN SubDirRegion ELSE <<ZeroEntry>>

IsDotName(name) == Trim(name) = <<46>> \/ Trim(name) = <<46, 46>>

IsNotDotWindow(w) == ~IsDotName(NameOf(w))

\* the names a pass over the region of subdirectory e emits
ChildNames(e) == WindowNames(SelectSeq(ShortWindows(ClusterRegion(e.start)), IsNotDotWindow))

\* C7: the entries of an emitted subdirectory (not "." or "..") are emitted
\* right after the subdirectory's entry, before its next sibling.
C7_Preorder ==
    pc = "done" =>
        \A m \in 1..Len(emitted) :
            (is_subdir_entry(emitted[m]) /\ ~IsDotName(emitted[m].name))
                => LET children == ChildNames(emitted[m])
                   IN  /\ m + Len(children) <= Len(emitted)
                       /\ \A q \in 1..Len(children) : emitted[m + q].name = children[q]

\* the shards of d that carry checksum sum, as decoded, in encounter order
Bucket(d, sum) ==
    LET ws == ShardWindows(d)
        shards == [m \in 1..Len(ws) |-> LFNEntryNew(ws[m])]
        HasSum(x) == x.checksum = sum
    IN  SelectSeq(shards, HasSum)

Count(x, list) == Cardinality({m \in 1..Len(list) : list[m] = x})

\* b holds the shards of a, each as often
SameShards(a, b) ==
    /\ Len(a) = Len(b)
    /\ \A m \in 1..Len(a) : Count(a[m], a) = Count(a[m], b)

\* ascending sequence numbers
AscendingSeq(b) ==
    \A m \in 1..(Len(b) - 1) : b[m].sequence_number <= b[m + 1].sequence_number

\* ascending sequence numbers, and ascending fragments where the numbers agree
AscendingSeqThenName(b) ==
    \A m \in 1..(Len(b) - 1) :
        \/ b[m].sequence_number < b[m + 1].sequence_number
        \/ /\ b[m].sequence_number = b[m + 1].sequence_number
           /\ ~StrLess(b[m + 1].filename, b[m].filename)

HeadAndTail(b) ==
    /\ Len(b) = 2
    /\ {b[1], b[2]} = {LFNEntryNew(LFNHead), LFNEntryNew(LFNTail)}

\* the long name of every emitted entry is the concatenation of its bucket in
\* an order that satisfies Ordered, and two, the name of the bucket of the
\* shards 0x41 "LongFilename." and 0x02 "txt"
LongNames(Ordered(_), two) ==
    \A m \in 1..Len(emitted) :
        LET e == emitted[m]
            bucket == Bucket(dir, e.checksum)
        IN  IF Len(bucket) = 0 THEN e.long_name = None
            ELSE /\ e.long_name.some
                 /\ \E b \in {lfns[e.checksum]} :
                       /\ SameShards(bucket, b)
                       /\ Ordered(b)
                       /\ e.long_name.str = ConcatNames(b)
                 /\ HeadAndTail(bucket) => e.long_name.str = two

\* C8 as stated: the long name is the bucket's fragments by ascending sequence
\* number, and shards 0x41 "LongFilename." and 0x02 "txt" give "LongFilename.txt".
C8_LongNameAsStated == LongNames(AscendingSeq, FragHead \o FragTail)

\* C8 as amended: the long name is the bucket's fragments by ascending sequence
\* number (byte 0 as stored, equal numbers by fragment), and shards 0x41
\* "LongFilename." and 0x02 "txt" give "txtLongFilename.", in either encounter order.
C8_LongNameBySequence == LongNames(AscendingSeqThenName, FragTail \o FragHead)

C8_Witness ==
    /\ pc = "done"
    /\ dir = <<LFNHead, LFNTail, ShortLong, ZeroEntry>>
    /\ Len(emitted) = 1
    /\ emitted[1].long_name = Some(FragTail \o FragHead)

----------------------------------------------------------------------------
(* The layout Fat::new computes *)

\* the least q with q * b >= a
CeilDiv(a, b) == (a + (b - 1)) \div b

\* construction has run on a boot sector whose trimmed label is FAT12 or FAT16
Built1216 == pc # "start" /\ Trim(vol.fat_type) \in {FAT12, FAT16}

\* C11: on a FAT12/16 boot sector Fat::new yields start_root_dir =
\* start_data_area and start_cluster_area = start_data_area +
\* ceil(total_root_entries * 32 / bytes_per_sector), whatever the 16-bit
\* total_root_entries; with bytes_per_sector 512, reserved 1, two FATs of 32
\* sectors and 512 root entries, start_data_area = 65 and start_cluster_area = 97.
C11_RootDirLayout ==
    Built1216 =>
        /\ ~vol.panic
        /\ vol.start_root_dir = vol.start_data_area
        /\ vol.start_cluster_area =
              vol.start_data_area
                  + CeilDiv(boot.total_root_entries * 32, boot.bytes_per_sector)
        /\ boot = Boot16 => (vol.start_data_area = 65 /\ vol.start_cluster_area = 97)

\* C12: constructing a volume from a boot sector whose trimmed 8-byte type
\* label is none of "FAT12", "FAT16", "FAT32" fails, and no constructed volume
\* has a fat_table_entry_size outside {12, 16, 32}.
C12_UnknownLabelFails ==
    pc # "start" =>
        /\ Trim(vol.fat_type) \notin {FAT12, FAT16, FAT32} => vol.panic
        /\ ~vol.panic => vol.fat_table_entry_size \in {12, 16, 32}

----------------------------------------------------------------------------
(* Entry::new on one 32-byte window *)

NameAlice == PadName(<<65, 108, 105, 99, 101>>)

NameWork == PadName(<<87, 79, 82, 75>>)

\* "CAFE" with U+00C9 as UTF-8: two bytes >= 0x80 that are valid UTF-8
NameUtf8 == PadName(<<67, 65, 70, 195, 137>>)

\* "MULL" with 0x9A for the second letter, as an OEM code page stores it
NameOem == PadName(<<77, 154, 76, 76>>)

CodecNames == {NameA, NameAlice, NameWork, NameLong, NameDeleted, NameUtf8, NameOem,
               PadName(<<46>>)}

CodecWindows == {MkShort(name, attr, c) : name \in CodecNames, attr \in {8, 16, 32},
                                          c \in 0..MaxCluster}

InitCodec ==
    /\ build = "release"
    /\ boot = Boot16
    /\ \E w \in CodecWindows : dir = <<w>>
    /\ fat = NoFat
    /\ Idle

Decoded(fn, r, e) ==
    /\ calls' = <<[fn |-> fn, arg |-> 1, ret |-> r]>>
    /\ entry' = e
    /\ pc' = IF r.panic THEN "panic" ELSE "decoded"
    /\ UNCHANGED <<build, boot, dir, fat, vol, i, files, lfns, k, decoded,
                   emitted, n, clusters>>

\* formats::fat::Entry::new(&mem[..32])
FatEntryNew ==
    /\ pc = "start"
    /\ IF EntryNewPanics(dir[1])
       THEN Decoded("fat::Entry::new", Panicked, NoEntry)
       ELSE Decoded("fat::Entry::new", Ret(0), EntryNew(dir[1]))

\* formats::fat_entry::Entry::new(&mem[..32])
FatEntryEntryNew ==
    /\ pc = "start"
    /\ Decoded("fat_entry::Entry::new", Ret(0), EntryNewLossy(dir[1]))

NextCodec == FatEntryNew \/ FatEntryEntryNew

SpecCodec == InitCodec /\ [][NextCodec]_vars

\* sum := ((sum & 1) << 7 | (sum >> 1)) + b mod 256, over the bytes of s in order
RECURSIVE RotateAdd(_)
RotateAdd(s) ==
    IF s = <<>> THEN 0
    ELSE LET sum == RotateAdd(SubSeq(s, 1, Len(s) - 1))
         IN  ((((sum % 2) * 128) + (sum \div 2)) + s[Len(s)]) % 256

\* C13: the checksum stored in the Entry decoded from a 32-byte short-entry
\* window is the rotate-right-and-add fold over the window's 11 raw name bytes,
\* also when name bytes are >= 0x80 (a deleted entry starts with 0xE5); it is
\* 8 for "Alice      " and 163 for "WORK       ".
C13_ChecksumOverRawName ==
    pc = "decoded" =>
        /\ entry.checksum = RotateAdd(NameOf(dir[1]))
        /\ NameOf(dir[1]) = NameAlice => entry.checksum = 8
        /\ NameOf(dir[1]) = NameWork => entry.checksum = 163

----------------------------------------------------------------------------
(* Shards and the entries that receive them *)

\* sub occurs in s
Contains(sub, s) ==
    \E a \in 0..(Len(s) - Len(sub)) : SubSeq(s, a + 1, a + Len(sub)) = sub

\* the windows decoded as shards that carry the checksum and fragment of shard
SameFragment(shard) ==
    {q \in decoded : IsLFNWindow(dir[q]) /\ LFNEntryNew(dir[q]).checksum = shard.checksum
                                         /\ LFNEntryNew(dir[q]).filename = shard.filename}

\* the emitted entries whose long name holds the fragment of shard
Receivers(shard) ==
    {m \in 1..Len(emitted) :
        /\ emitted[m].long_name.some
        /\ emitted[m].checksum = shard.checksum
        /\ Contains(shard.filename, emitted[m].long_name.str)}

\* C14: within one directory pass each decoded shard gives its fragment to the
\* long name of at most one short entry, also when two short entries have the
\* same checksum: a fragment is in no more long names than shards carry it.
C14_ShardUsedOnce ==
    \A j \in decoded :
        IsLFNWindow(dir[j]) =>
            LET shard == LFNEntryNew(dir[j])
            IN  Cardinality(Receivers(shard)) <= Cardinality(SameFragment(shard))

====
